---- MODULE Spec2Model ----
(***************************************************************************)
(* Realtime session layer of the dashboard client:                         *)
(*   - ApiClient (axios instance with a request interceptor that attaches  *)
(*     the access token and a response interceptor that refreshes the      *)
(*     token on 401 and resends the request), and                          *)
(*   - useWebSocket (React hook keeping one WebSocket per component, with  *)
(*     timer based reconnection).                                          *)
(* Both read the credential pair kept in localStorage.                     *)
(***************************************************************************)
EXTENDS Naturals, FiniteSets, Sequences, TLC

\* ------------------------------------------------------------------------
\* Bounds of the model
\* ------------------------------------------------------------------------
\* number of execute() calls that may be in flight
NReq == 2
\* distinct token values the server hands out (0 stands for "absent")
MaxTok == 2

\* maxReconnectAttempts option of useWebSocket (a configuration knob)
maxReconnectAttempts == 2
\* WebSocket objects one hook instance may construct
MaxSockets == 3
\* the same, while nothing but stream failures happens
MaxFailSockets == 6
\* message events raised plus sendMessage calls made, per hook instance
MaxMsgs == 3

Reqs == 1..NReq
Tokens == 1..MaxTok
None == 0
\* the reconnectCount state is followed up to one past the configured cap
MaxCount == maxReconnectAttempts + 1

VARIABLES
    access,     \* localStorage 'access_token'  (None = absent)
    refresh,    \* localStorage 'refresh_token' (None = absent)
    location,   \* window.location.href, "app" or "/auth"
    req,        \* per execute() call: the axios config and the caller's promise
    isAuthenticated,      \* redux state.auth.isAuthenticated
    mounted,              \* the component using the hook: "mounted", "unmounted"
    deps,                 \* <<isAuthenticated, reconnectCount>> of the committed
                          \* effect and connect callback; <<>> before the first
    isConnected,          \* useState
    reconnectCount,       \* useState
    wsRef,                \* wsRef.current: index into sockets, 0 = null
    reconnectTimeoutRef,  \* reconnectTimeoutRef.current: timer id, 0 = undefined
    sockets,              \* every WebSocket constructed so far
    timers,               \* pending setTimeout callbacks
    received,   \* message events raised so far: the socket and event.data
    inbox,      \* the messages onMessage was invoked with, in order
    reports,    \* console.error calls of the onmessage catch block
    calls,      \* sendMessage calls made so far (a call is named by its number)
    outbox,     \* ws.send calls: the socket and the sendMessage call
    dropped     \* sendMessage calls that ended in console.warn

tvars == <<access, refresh, location, req>>

cvars == <<isAuthenticated, mounted, deps, isConnected, reconnectCount, wsRef,
           reconnectTimeoutRef, sockets, timers>>

mvars == <<received, inbox, reports, calls, outbox, dropped>>

vars == <<access, refresh, location, req, isAuthenticated, mounted, deps,
          isConnected, reconnectCount, wsRef, reconnectTimeoutRef, sockets,
          timers, received, inbox, reports, calls, outbox, dropped>>

\* A request that has not been issued yet.
NewReq ==
    [pc |-> "new",        \* new, sent, refreshing, done
     kind |-> "api",      \* "api", or "login" (ApiClient.login's post)
     retry |-> FALSE,     \* originalRequest._retry
     hdr |-> None,        \* Authorization header carried by the last send
     sends |-> 0,         \* times the request went to the network
     n401 |-> 0,          \* unauthorized responses received
     refreshes |-> 0,     \* refresh exchanges issued for this request
     rarg |-> None,       \* refresh value carried by its refresh exchange
     granted |-> None,    \* access value its refresh exchange returned
     rotated |-> None,    \* refresh value its refresh exchange returned, if any
     result |-> "none",   \* how the caller's promise settled
     answer |-> 0]        \* which send the returned response answers

\* ------------------------------------------------------------------------
\* ApiClient
\* ------------------------------------------------------------------------

\* Request interceptor: attach the stored token when there is one, else
\* leave the headers of the config as they are.
RequestInterceptor(token, hdr) ==
    IF token # None THEN token ELSE hdr

\* The refresh logic without the _retry test.
ShouldRefreshAlways(q) == TRUE

\* The condition guarding the refresh logic for an unauthorized response.
ShouldRefresh(q) == ~q.retry

\* The caller's promise settles; the config is released with it.
Settle(q, res) ==
    [q EXCEPT !.pc = "done", !.result = res,
              !.answer = IF res = "response" THEN q.sends ELSE 0,
              !.hdr = None, !.rarg = None, !.granted = None,
              !.rotated = None]

\* api.client.<method>(...): the request passes the request interceptor and
\* goes to the network.  (Calls are interchangeable: they are numbered in the
\* order they are issued.)
Execute(r, k) ==
    /\ req[r].pc = "new"
    /\ IF r = 1 THEN TRUE ELSE req[r - 1].pc # "new"
    /\ req' = [req EXCEPT ![r] =
                 [@ EXCEPT !.pc = "sent", !.kind = k,
                           !.hdr = RequestInterceptor(access, None),
                           !.sends = 1]]
    /\ UNCHANGED <<access, refresh, location>>
    /\ UNCHANGED cvars
    /\ UNCHANGED mvars

\* A 2xx response: the response interceptor passes it through.  For
\* ApiClient.login the continuation stores the returned pair.
ResponseOK(r) ==
    /\ req[r].pc = "sent"
    /\ req' = [req EXCEPT ![r] = Settle(@, "response")]
    /\ IF req[r].kind = "login"
         THEN \E s \in Tokens : access' = s /\ refresh' = s
         ELSE UNCHANGED <<access, refresh>>
    /\ UNCHANGED location
    /\ UNCHANGED cvars
    /\ UNCHANGED mvars

\* A 401 response.  Not yet retried: mark the config, read the refresh value
\* and post the refresh exchange (plain axios, no interceptors).  Already
\* retried: the error is rejected to the caller as it is.
Response401(r) ==
    /\ req[r].pc = "sent"
    /\ IF ShouldRefresh(req[r])
         THEN req' = [req EXCEPT ![r] =
                        [@ EXCEPT !.pc = "refreshing", !.retry = TRUE,
                                  !.n401 = @ + 1,
                                  !.refreshes = @ + 1,
                                  !.rarg = refresh]]
         ELSE req' = [req EXCEPT ![r] =
                        Settle([@ EXCEPT !.n401 = @ + 1], "error401")]
    /\ UNCHANGED <<access, refresh, location>>
    /\ UNCHANGED cvars
    /\ UNCHANGED mvars

\* ResponseError that also drops the access value.
ResponseErrorClears(r) ==
    /\ req[r].pc = "sent"
    /\ req' = [req EXCEPT ![r] = Settle(@, "errorOther")]
    /\ access' = None
    /\ UNCHANGED <<refresh, location>>
    /\ UNCHANGED cvars
    /\ UNCHANGED mvars

\* Any other failure (no response, 4xx other than 401, 5xx): rejected as is.
ResponseError(r) ==
    /\ req[r].pc = "sent"
    /\ req' = [req EXCEPT ![r] = Settle(@, "errorOther")]
    /\ UNCHANGED <<access, refresh, location>>
    /\ UNCHANGED cvars
    /\ UNCHANGED mvars

\* RefreshOK without `return this.client(originalRequest)`: the interceptor
\* resolves with what it has instead of resending.
RefreshOKNoResend(r, a, rot) ==
    /\ req[r].pc = "refreshing"
    /\ req[r].rarg # None
    /\ access' = a
    /\ req' = [req EXCEPT ![r] = Settle(@, "response")]
    /\ UNCHANGED <<refresh, location>>
    /\ UNCHANGED cvars
    /\ UNCHANGED mvars

\* RefreshOK without localStorage.setItem('access_token', access).
RefreshOKKeepStore(r, a, rot) ==
    /\ req[r].pc = "refreshing"
    /\ req[r].rarg # None
    /\ req' = [req EXCEPT ![r] =
                 [@ EXCEPT !.pc = "sent", !.granted = a, !.rotated = rot,
                           !.hdr = RequestInterceptor(access, a),
                           !.sends = @ + 1]]
    /\ UNCHANGED <<access, refresh, location>>
    /\ UNCHANGED cvars
    /\ UNCHANGED mvars

\* The refresh exchange answers with a new access value a and, when the
\* server rotates, a new refresh value rot (None when it does not): the
\* access value is taken from the answer and stored, put in the header of
\* the original config, and the config is handed to this.client again
\* (request interceptor, then network).
RefreshOK(r, a, rot) ==
    /\ req[r].pc = "refreshing"
    /\ req[r].rarg # None
    /\ access' = a
    /\ req' = [req EXCEPT ![r] =
                 [@ EXCEPT !.pc = "sent", !.granted = a, !.rotated = rot,
                           !.hdr = RequestInterceptor(access', a),
                           !.sends = @ + 1]]
    /\ UNCHANGED <<refresh, location>>
    /\ UNCHANGED cvars
    /\ UNCHANGED mvars

\* RefreshFail without `return Promise.reject(refreshError)`: the promise of
\* the interceptor never settles.
RefreshFailHang(r) ==
    /\ req[r].pc = "refreshing"
    /\ access' = None
    /\ refresh' = None
    /\ location' = "/auth"
    /\ req' = [req EXCEPT ![r] = [@ EXCEPT !.pc = "waiting"]]
    /\ UNCHANGED cvars
    /\ UNCHANGED mvars

\* A refresh failure that posts the refresh exchange again.
RefreshFailRetry(r) ==
    /\ req[r].pc = "refreshing"
    /\ req' = [req EXCEPT ![r] = [@ EXCEPT !.refreshes = @ + 1]]
    /\ UNCHANGED <<access, refresh, location>>
    /\ UNCHANGED cvars
    /\ UNCHANGED mvars

\* RefreshFail without localStorage.removeItem('refresh_token').
RefreshFailKeepRefresh(r) ==
    /\ req[r].pc = "refreshing"
    /\ access' = None
    /\ location' = "/auth"
    /\ req' = [req EXCEPT ![r] = Settle(@, "refreshError")]
    /\ UNCHANGED refresh
    /\ UNCHANGED cvars
    /\ UNCHANGED mvars

\* The refresh exchange fails: remove both values, go to /auth, reject with
\* the refresh error.
RefreshFail(r) ==
    /\ req[r].pc = "refreshing"
    /\ access' = None
    /\ refresh' = None
    /\ location' = "/auth"
    /\ req' = [req EXCEPT ![r] = Settle(@, "refreshError")]
    /\ UNCHANGED cvars
    /\ UNCHANGED mvars

\* The rejection that ends the session: the one of the refresh catch block,
\* which comes with the cleared store and the redirect to /auth.
SessionExpired(q) == q.result = "refreshError"

\* ApiClient.logout
Logout ==
    /\ access # None \/ refresh # None
    /\ access' = None
    /\ refresh' = None
    /\ UNCHANGED <<location, req>>
    /\ UNCHANGED cvars
    /\ UNCHANGED mvars

\* ------------------------------------------------------------------------
\* useWebSocket
\* ------------------------------------------------------------------------
\* The callbacks of one render close over that render's isAuthenticated and
\* reconnectCount.  connect returns early unless its isAuthenticated is true,
\* so every socket, and every timer a socket's onclose schedules, belongs to
\* a closure whose isAuthenticated is TRUE; only the captured reconnectCount
\* differs and is kept with the socket (count).

\* The refs and the objects they point to, as the callbacks see them.
ChanState == [wsRef |-> wsRef, sockets |-> sockets, timers |-> timers]

\* ws.close() on socket i (0 = no socket): a CONNECTING or OPEN socket goes
\* to CLOSING and its close event follows later; otherwise nothing happens.
\* by records who called close(), wasOpen whether the socket was OPEN then;
\* the target of a socket is followed only while it is connecting or open.
CloseSocket(socks, i, by) ==
    IF i = 0 THEN socks
    ELSE IF socks[i].state \in {"CONNECTING", "OPEN"}
      THEN [socks EXCEPT ![i] =
              [state |-> "CLOSING", count |-> socks[i].count,
               token |-> None, closedBy |-> by,
               wasOpen |-> (socks[i].state = "OPEN")]]
      ELSE socks

\* NewSocket that reuses the token of the socket it replaces.
NewSocketCapturedToken(count) ==
    [state |-> "CONNECTING", count |-> count,
     token |-> IF wsRef = 0 THEN access
               ELSE IF sockets[wsRef].token = None THEN access
               ELSE sockets[wsRef].token,
     closedBy |-> "none", wasOpen |-> FALSE]

\* new WebSocket(`${url}?token=${token}`) with the handlers of the closure
\* whose reconnectCount is count.
NewSocket(count) ==
    [state |-> "CONNECTING", count |-> count, token |-> access,
     closedBy |-> "none", wasOpen |-> FALSE]

\* A socket whose close event has been delivered: it raises no further event
\* and close() on it does nothing.
ClosedSocket ==
    [state |-> "CLOSED", count |-> 0, token |-> None, closedBy |-> "none",
     wasOpen |-> FALSE]

\* connect() without the clean-up of the existing connection.
connectNoClose(st, auth, count) ==
    IF ~auth THEN st
    ELSE [st EXCEPT !.sockets = Append(st.sockets, NewSocket(count)),
                    !.wsRef = Len(st.sockets) + 1]

\* connect() of the closure (auth, count).
connect(st, auth, count) ==
    IF ~auth THEN st
    ELSE LET closed == CloseSocket(st.sockets, st.wsRef, "connect")
         IN [st EXCEPT !.sockets = Append(closed, NewSocket(count)),
                       !.wsRef = Len(closed) + 1]

\* A disconnect that cancels the oldest pending timer instead of the
\* remembered one.
disconnectOldestTimer(st, by) ==
    [wsRef |-> 0,
     sockets |-> CloseSocket(st.sockets, st.wsRef, by),
     timers |-> {t \in st.timers : \E u \in st.timers : u.id < t.id}]

\* disconnect(): clearTimeout of the remembered timer, close and forget the
\* current socket.
disconnect(st, by) ==
    [wsRef |-> 0,
     sockets |-> CloseSocket(st.sockets, st.wsRef, by),
     timers |-> {t \in st.timers : t.id # reconnectTimeoutRef}]

\* The guard of the reconnection in onclose, on the closure's reconnectCount.
ShouldReconnect(count) == count < maxReconnectAttempts

\* setReconnectCount((prev) => prev + 1)
Increment(prev, count) == prev + 1

\* onopen without setReconnectCount(0): the count stays as it is.
NoReset == reconnectCount

\* setReconnectCount(0) in onopen
ResetCount == 0

\* Dependencies with the stored access value among them.
DepsWithToken == <<isAuthenticated, reconnectCount, access>>

\* What the dependency lists of connect and of the effect compare between
\* renders (url and maxReconnectAttempts are fixed options, disconnect is
\* stable).
Deps == <<isAuthenticated, reconnectCount>>

\* (n bounds the sockets constructed, here and in TimerFireWithin.)
\* React commits a render whose isAuthenticated or reconnectCount differs
\* from those of the committed effect (connect is a new function then): the
\* previous effect's cleanup runs disconnect(), then the effect runs
\* connect() if isAuthenticated.  The first commit is the mount.
FlushEffectsWithin(n) ==
    /\ mounted = "mounted"
    /\ deps # Deps
    /\ isAuthenticated => Len(sockets) < n
    /\ LET st0 == IF deps = <<>> THEN ChanState
                  ELSE disconnect(ChanState, "cleanup")
           st1 == IF isAuthenticated
                    THEN connect(st0, isAuthenticated, reconnectCount)
                    ELSE st0
       IN /\ wsRef' = st1.wsRef
          /\ sockets' = st1.sockets
          /\ timers' = st1.timers
    /\ deps' = Deps
    /\ UNCHANGED <<isAuthenticated, mounted, isConnected, reconnectCount,
                   reconnectTimeoutRef>>
    /\ UNCHANGED tvars
    /\ UNCHANGED mvars

\* The component is torn down: the committed effect's cleanup runs.
Unmount ==
    /\ mounted = "mounted"
    /\ mounted' = "unmounted"
    /\ LET st1 == IF deps = <<>> THEN ChanState
                  ELSE disconnect(ChanState, "cleanup")
       IN /\ wsRef' = st1.wsRef
          /\ sockets' = st1.sockets
          /\ timers' = st1.timers
    /\ UNCHANGED <<isAuthenticated, deps, isConnected, reconnectCount,
                   reconnectTimeoutRef>>
    /\ UNCHANGED tvars
    /\ UNCHANGED mvars

\* The caller invokes the disconnect the hook returns.
Disconnect ==
    /\ LET st1 == disconnect(ChanState, "disconnect")
       IN /\ wsRef' = st1.wsRef
          /\ sockets' = st1.sockets
          /\ timers' = st1.timers
    /\ UNCHANGED <<isAuthenticated, mounted, deps, isConnected, reconnectCount,
                   reconnectTimeoutRef>>
    /\ UNCHANGED tvars
    /\ UNCHANGED mvars

\* ws.onopen of socket i.  State setters of an unmounted component do nothing.
SockOpen(i) ==
    /\ sockets[i].state = "CONNECTING"
    /\ sockets' = [sockets EXCEPT ![i] = [@ EXCEPT !.state = "OPEN"]]
    /\ IF mounted = "mounted"
         THEN isConnected' = TRUE /\ reconnectCount' = ResetCount
         ELSE UNCHANGED <<isConnected, reconnectCount>>
    /\ UNCHANGED <<isAuthenticated, mounted, deps, wsRef, reconnectTimeoutRef,
                   timers>>
    /\ UNCHANGED tvars
    /\ UNCHANGED mvars

\* ws.onclose of socket i: the server or the network closed it, or a close()
\* called earlier completes.  Each socket closes once, so its index serves as
\* the id of the timer its onclose schedules.
SockClose(i) ==
    /\ sockets[i].state \in {"CONNECTING", "OPEN", "CLOSING"}
    /\ sockets' = [sockets EXCEPT ![i] = ClosedSocket]
    /\ IF mounted = "mounted"
         THEN isConnected' = FALSE
         ELSE UNCHANGED isConnected
    /\ IF ShouldReconnect(sockets[i].count)
         THEN /\ timers' = timers \cup
                   {[id |-> i, count |-> sockets[i].count]}
              /\ reconnectTimeoutRef' = i
         ELSE UNCHANGED <<timers, reconnectTimeoutRef>>
    /\ UNCHANGED <<isAuthenticated, mounted, deps, reconnectCount, wsRef>>
    /\ UNCHANGED tvars
    /\ UNCHANGED mvars

\* The setTimeout callback scheduled by onclose fires.
TimerFireWithin(t, n) ==
    /\ t \in timers
    /\ Len(sockets) < n
    /\ mounted = "mounted" => reconnectCount < MaxCount
    /\ IF mounted = "mounted"
         THEN reconnectCount' = Increment(reconnectCount, t.count)
         ELSE UNCHANGED reconnectCount
    /\ LET st1 == connect([ChanState EXCEPT !.timers = timers \ {t}],
                          TRUE, t.count)
       IN /\ wsRef' = st1.wsRef
          /\ sockets' = st1.sockets
          /\ timers' = st1.timers
    /\ UNCHANGED <<isAuthenticated, mounted, deps, isConnected,
                   reconnectTimeoutRef>>
    /\ UNCHANGED tvars
    /\ UNCHANGED mvars

FlushEffects == FlushEffectsWithin(MaxSockets)

TimerFire(t) == TimerFireWithin(t, MaxSockets)

\* event.data of the message events a server may send: two JSON texts and one
\* text that is not JSON.
RawPayloads == {"{\"type\":\"a\"}", "{\"type\":\"b\"}", "oops"}

\* JSON.parse: the value of a JSON text, a SyntaxError for any other text.
JSONParse(raw) ==
    CASE raw = "{\"type\":\"a\"}" -> [ok |-> TRUE, value |-> [type |-> "a"]]
      [] raw = "{\"type\":\"b\"}" -> [ok |-> TRUE, value |-> [type |-> "b"]]
      [] OTHER -> [ok |-> FALSE, value |-> "SyntaxError"]

\* The message events whose data parses.
WellFormed(events) == SelectSeq(events, LAMBDA e : JSONParse(e.raw).ok)

\* onmessage that hands the newest message to onMessage ahead of the ones
\* handed over before.
ReceivePrepend(i, raw) ==
    /\ sockets[i].state = "OPEN"
    /\ Len(received) + calls < MaxMsgs
    /\ received' = Append(received, [sock |-> i, raw |-> raw])
    /\ LET message == JSONParse(raw)
       IN IF message.ok
            THEN inbox' = <<message.value>> \o inbox /\ UNCHANGED reports
            ELSE reports' = reports + 1 /\ UNCHANGED inbox
    /\ UNCHANGED <<calls, outbox, dropped>>
    /\ UNCHANGED cvars
    /\ UNCHANGED tvars

\* onmessage whose catch block hands the raw text to onMessage.
ReceiveForwardRaw(i, raw) ==
    /\ sockets[i].state = "OPEN"
    /\ Len(received) + calls < MaxMsgs
    /\ received' = Append(received, [sock |-> i, raw |-> raw])
    /\ LET message == JSONParse(raw)
       IN IF message.ok
            THEN inbox' = Append(inbox, message.value) /\ UNCHANGED reports
            ELSE inbox' = Append(inbox, raw) /\ reports' = reports + 1
    /\ UNCHANGED <<calls, outbox, dropped>>
    /\ UNCHANGED cvars
    /\ UNCHANGED tvars

\* ws.onmessage of socket i with event.data = raw (message events are raised
\* on an OPEN socket only): parse, hand the message to onMessage; a parse
\* failure is caught and logged.
Receive(i, raw) ==
    /\ sockets[i].state = "OPEN"
    /\ Len(received) + calls < MaxMsgs
    /\ received' = Append(received, [sock |-> i, raw |-> raw])
    /\ LET message == JSONParse(raw)
       IN IF message.ok
            THEN inbox' = Append(inbox, message.value) /\ UNCHANGED reports
            ELSE reports' = reports + 1 /\ UNCHANGED inbox
    /\ UNCHANGED <<calls, outbox, dropped>>
    /\ UNCHANGED cvars
    /\ UNCHANGED tvars

\* sendMessage's test without the readyState comparison.
CanSendAnyState(st) == st.wsRef # 0

\* wsRef.current?.readyState === WebSocket.OPEN
CanSend(st) ==
    IF st.wsRef = 0 THEN FALSE ELSE st.sockets[st.wsRef].state = "OPEN"

\* sendMessage(message): ws.send on the current socket when it is OPEN, else
\* console.warn.
SendMessage ==
    /\ Len(received) + calls < MaxMsgs
    /\ calls' = calls + 1
    /\ IF CanSend(ChanState)
         THEN /\ outbox' = Append(outbox, [sock |-> wsRef, call |-> calls'])
              /\ UNCHANGED dropped
         ELSE /\ dropped' = dropped \cup {calls'}
              /\ UNCHANGED outbox
    /\ UNCHANGED <<received, inbox, reports>>
    /\ UNCHANGED cvars
    /\ UNCHANGED tvars

\* The auth slice of the redux store on login: the pair is stored and
\* isAuthenticated becomes true.
AuthLogin(s) ==
    /\ ~isAuthenticated
    /\ isAuthenticated' = TRUE
    /\ access' = s
    /\ refresh' = s
    /\ UNCHANGED <<location, req>>
    /\ UNCHANGED <<mounted, deps, isConnected, reconnectCount, wsRef,
                   reconnectTimeoutRef, sockets, timers>>
    /\ UNCHANGED mvars

\* dispatch(logout()): the pair is removed and isAuthenticated becomes false.
AuthLogout ==
    /\ isAuthenticated
    /\ isAuthenticated' = FALSE
    /\ access' = None
    /\ refresh' = None
    /\ UNCHANGED <<location, req>>
    /\ UNCHANGED <<mounted, deps, isConnected, reconnectCount, wsRef,
                   reconnectTimeoutRef, sockets, timers>>
    /\ UNCHANGED mvars

CInit ==
    /\ \E s \in {None} \cup Tokens :
         access = s /\ refresh = s /\ isAuthenticated = (s # None)
    /\ location = "app"
    /\ req = [r \in Reqs |-> NewReq]
    /\ mounted = "mounted"
    /\ deps = <<>>
    /\ isConnected = FALSE
    /\ reconnectCount = 0
    /\ wsRef = 0
    /\ reconnectTimeoutRef = 0
    /\ sockets = <<>>
    /\ timers = {}
    /\ received = <<>>
    /\ inbox = <<>>
    /\ reports = 0
    /\ calls = 0
    /\ outbox = <<>>
    /\ dropped = {}

\* The transport on its own: no component uses the hook.
TInit ==
    /\ \E s \in {None} \cup Tokens : access = s /\ refresh = s
    /\ location = "app"
    /\ req = [r \in Reqs |-> NewReq]
    /\ isAuthenticated = (access # None)
    /\ mounted = "unmounted"
    /\ deps = <<>>
    /\ isConnected = FALSE
    /\ reconnectCount = 0
    /\ wsRef = 0
    /\ reconnectTimeoutRef = 0
    /\ sockets = <<>>
    /\ timers = {}
    /\ received = <<>>
    /\ inbox = <<>>
    /\ reports = 0
    /\ calls = 0
    /\ outbox = <<>>
    /\ dropped = {}

TNext ==
    \/ \E r \in Reqs, k \in {"api", "login"} : Execute(r, k)
    \/ \E r \in Reqs : ResponseOK(r)
    \/ \E r \in Reqs : Response401(r)
    \/ \E r \in Reqs : ResponseError(r)
    \/ \E r \in Reqs, a \in Tokens :
          \E rot \in {None, a} : RefreshOK(r, a, rot)
    \/ \E r \in Reqs : RefreshFail(r)
    \/ Logout

Spec == TInit /\ [][TNext]_vars

\* The server or the network answers request r or its refresh exchange, and
\* the interceptor runs on the answer.
Answer(r) ==
    \/ ResponseOK(r)
    \/ Response401(r)
    \/ ResponseError(r)
    \/ \E a \in Tokens : RefreshOK(r, a, None)
    \/ RefreshFail(r)

\* The transport when every exchange in flight eventually gets an answer
\* (plain requests, a server that does not rotate the refresh value).
LiveNext ==
    \/ \E r \in Reqs : Execute(r, "api")
    \/ \E r \in Reqs : Answer(r)
    \/ Logout

LiveSpec == TInit /\ [][LiveNext]_vars /\ \A r \in Reqs : WF_vars(Answer(r))

\* The channel of one mounted component.
CNext ==
    \/ FlushEffects
    \/ Unmount
    \/ Disconnect
    \/ \E i \in 1..Len(sockets) : SockOpen(i)
    \/ \E i \in 1..Len(sockets) : SockClose(i)
    \/ \E t \in timers : TimerFire(t)
    \/ \E s \in Tokens : AuthLogin(s)
    \/ AuthLogout

ChannelSpec == CInit /\ [][CNext]_vars

\* The channel while nothing but stream failures happens: the server never
\* completes a handshake, nobody logs in or out, nobody calls disconnect().
FailNext ==
    \/ FlushEffectsWithin(MaxFailSockets)
    \/ \E i \in 1..Len(sockets) : SockClose(i)
    \/ \E t \in timers : TimerFireWithin(t, MaxFailSockets)

FailSpec == CInit /\ [][FailNext]_vars

\* The channel while streams fail and open, the session stays as it is and
\* nobody calls disconnect().
ONext ==
    \/ FlushEffectsWithin(MaxFailSockets)
    \/ \E i \in 1..Len(sockets) : SockOpen(i)
    \/ \E i \in 1..Len(sockets) : SockClose(i)
    \/ \E t \in timers : TimerFireWithin(t, MaxFailSockets)

OpenSpec == CInit /\ [][ONext]_vars

\* The channel with its message traffic, while the session stays as it is.
MNext ==
    \/ FlushEffects
    \/ \E i \in 1..Len(sockets) : SockOpen(i)
    \/ \E i \in 1..Len(sockets) : SockClose(i)
    \/ \E t \in timers : TimerFire(t)
    \/ \E i \in 1..Len(sockets), raw \in RawPayloads : Receive(i, raw)
    \/ SendMessage

MsgSpec == CInit /\ [][MNext]_vars

\* The channel next to a transport that refreshes the access value: one
\* request goes through its refresh cycle while the session stays.
RNext ==
    \/ FlushEffects
    \/ \E i \in 1..Len(sockets) : SockOpen(i)
    \/ \E i \in 1..Len(sockets) : SockClose(i)
    \/ \E t \in timers : TimerFire(t)
    \/ Execute(1, "api")
    \/ ResponseOK(1)
    \/ Response401(1)
    \/ \E a \in Tokens : RefreshOK(1, a, None)

ReauthSpec == CInit /\ [][RNext]_vars

\* ------------------------------------------------------------------------
\* Properties of the transport (checked under Spec)
\* ------------------------------------------------------------------------

\* C1: refresh coalescing.  A caller that gets 401 while a refresh exchange
\* is in flight awaits that exchange, so at no time are two refresh exchanges
\* in flight.
C1_OneRefreshInFlight ==
    Cardinality({r \in Reqs : req[r].pc = "refreshing"}) <= 1

\* C2: single retry.  A request that got exactly one 401 and then resolved
\* with a response went to the network exactly twice, with exactly one
\* refresh exchange (a successful one) in between, and the caller holds the
\* response to the second send.
C2_SingleRetry ==
    \A r \in Reqs :
        (req[r].result = "response" /\ req[r].n401 = 1) =>
            /\ req[r].sends = 2
            /\ req[r].refreshes = 1
            /\ req[r].answer = 2

C2_Witness ==
    \E r \in Reqs : req[r].result = "response" /\ req[r].n401 = 1

\* C3: no double retry.  A request answered 401 twice (original and retry)
\* fails with SessionExpired after exactly one refresh and one retry.
C3_NoDoubleRetry ==
    \A r \in Reqs :
        (req[r].pc = "done" /\ req[r].n401 = 2) =>
            /\ SessionExpired(req[r])
            /\ req[r].refreshes = 1
            /\ req[r].sends = 2

\* C4: scenario A.  The refresh exchange carries the stored refresh value;
\* when it returns an access value, the store holds that value right after,
\* the request is resent once (its second send) carrying that value, and
\* the caller gets the response to that resend.
C4_ScenarioA ==
    [][\A r \in Reqs :
         /\ (req[r].pc = "sent" /\ req'[r].pc = "refreshing") =>
                req'[r].rarg = refresh
         /\ (req[r].pc = "refreshing" /\ req'[r].pc = "sent") =>
                /\ req'[r].granted # None
                /\ access' = req'[r].granted
                /\ req'[r].hdr = req'[r].granted
                /\ req'[r].sends = 2
         /\ (req[r].granted # None /\ req'[r].result = "response") =>
                req'[r].answer = 2]_vars

\* The resend is in flight carrying the value the refresh exchange returned,
\* and the store holds that value.
C4_Witness ==
    \E r \in Reqs :
        /\ req[r].pc = "sent"
        /\ req[r].rarg # None
        /\ req[r].granted # None
        /\ req[r].sends = 2
        /\ req[r].hdr = req[r].granted
        /\ access = req[r].granted

\* C5: scenario B.  When the refresh exchange fails, the caller is rejected
\* with SessionExpired, both stored values are absent right after, and the
\* request, sent once, is not sent again.
C5_ScenarioB ==
    [][\A r \in Reqs :
         /\ (req[r].pc = "refreshing" /\ req'[r].pc = "done") =>
                /\ SessionExpired(req'[r])
                /\ req'[r].sends = 1
                /\ access' = None
                /\ refresh' = None
         /\ SessionExpired(req[r]) => req'[r].sends = 1]_vars

C5_Witness ==
    \E r \in Reqs :
        /\ SessionExpired(req[r])
        /\ req[r].sends = 1
        /\ access = None
        /\ refresh = None

\* ------------------------------------------------------------------------
\* Properties of the channel
\* ------------------------------------------------------------------------

\* C6 (under FailSpec): bounded reconnection.  When every stream fails, the
\* hook constructs at most maxReconnectAttempts + 1 sockets: the first one
\* and one per reconnection.
C6_BoundedReconnection ==
    Len(sockets) <= maxReconnectAttempts + 1

\* C7 (under FailSpec): reconnectCount never exceeds maxReconnectAttempts.
C7_CountWithinCap ==
    reconnectCount <= maxReconnectAttempts

\* C8 (under ChannelSpec): a caller's disconnect() suppresses reconnection.
\* The close event of a stream that was Open when disconnect() closed it
\* schedules no reconnection timer.
C8_DisconnectSuppresses ==
    [][\A i \in 1..Len(sockets) :
         (/\ sockets[i].state = "CLOSING"
          /\ sockets[i].closedBy = "disconnect"
          /\ sockets[i].wasOpen
          /\ sockets'[i].state = "CLOSED") => timers' \subseteq timers]_vars

\* C9 (under ChannelSpec): gated connect.  No stream is opened whose target
\* carries an absent access value.
C9_GatedConnect ==
    \A i \in 1..Len(sockets) :
        sockets[i].state \in {"CONNECTING", "OPEN"} => sockets[i].token # None

\* C10 (under ChannelSpec): reconnect reset.  While the component is
\* mounted, an Open transition leaves reconnectCount at 0, the count is 0
\* for as long as a stream is Open, and the count leaves 0 only for 1: the
\* attempt after an Open counts as attempt 1, not from where the closure of
\* the failed stream had left off.
C10_ReconnectReset ==
    /\ [](mounted = "mounted" =>
            \A i \in 1..Len(sockets) :
                sockets[i].state = "OPEN" => reconnectCount = 0)
    /\ [][mounted = "mounted" =>
            /\ \A i \in 1..Len(sockets) :
                 (sockets[i].state = "CONNECTING"
                  /\ sockets'[i].state = "OPEN") => reconnectCount' = 0
            /\ (reconnectCount = 0 /\ reconnectCount' # 0)
                     => reconnectCount' = 1]_vars

\* A stream built by a closure that had counted failures is Open and the
\* count is back at 0.
C10_Witness ==
    /\ mounted = "mounted"
    /\ reconnectCount = 0
    /\ \E i \in 1..Len(sockets) :
         sockets[i].state = "OPEN" /\ sockets[i].count > 0

\* C11 (under MsgSpec): malformed inbound message.  onMessage has been invoked
\* with exactly the parsed well-formed payloads, in order, and one failure has
\* been reported per payload that does not parse; the message event of such a
\* payload reports once, invokes no handler and leaves the channel's state
\* (isConnected, reconnectCount, the sockets, the current socket, the timers)
\* as it was.
C11_MalformedMessage ==
    /\ [](/\ inbox = [k \in 1..Len(WellFormed(received)) |->
                        JSONParse(WellFormed(received)[k].raw).value]
          /\ reports = Len(received) - Len(WellFormed(received)))
    /\ [][(/\ Len(received') = Len(received) + 1
           /\ ~JSONParse(received'[Len(received')].raw).ok) =>
               /\ inbox' = inbox
               /\ reports' = reports + 1
               /\ UNCHANGED cvars]_vars

\* A payload that does not parse has arrived on a socket that is still OPEN.
C11_Witness ==
    /\ reports = 1
    /\ \E k \in 1..Len(received) :
         /\ ~JSONParse(received[k].raw).ok
         /\ sockets[received[k].sock].state = "OPEN"
         /\ isConnected

\* C12 (under MsgSpec): send only when Open.  A sendMessage call transmits,
\* on the current socket and at the time of the call, exactly when that
\* socket is OPEN; any other call ends in a warning, and a call that was
\* dropped is never transmitted, whatever the channel does afterwards.
C12_SendOnlyWhenOpen ==
    /\ [](/\ \A k \in 1..Len(outbox) : outbox[k].call \notin dropped
          /\ Len(outbox) + Cardinality(dropped) = calls)
    /\ [][/\ outbox' # outbox =>
               /\ calls' = calls + 1
               /\ CanSendAnyState(ChanState)
               /\ sockets[wsRef].state = "OPEN"
               /\ outbox' = Append(outbox, [sock |-> wsRef, call |-> calls'])
          /\ (calls' # calls /\ outbox' = outbox) =>
               /\ dropped' = dropped \cup {calls'}
               /\ wsRef # 0 => sockets[wsRef].state # "OPEN"]_vars

\* A call was dropped while the socket was not open, the socket opened, and a
\* later call was transmitted on it.
C12_Witness ==
    /\ 1 \in dropped
    /\ \E k \in 1..Len(outbox) :
         outbox[k].call = 2 /\ sockets[outbox[k].sock].state = "OPEN"

\* C13 (under ChannelSpec): disconnect() is idempotent.  In every state of
\* the channel, a second disconnect() right after the first changes nothing:
\* the same current socket (none), the same sockets in the same states (no
\* further close), the same pending timers.
C13_DisconnectIdempotent ==
    LET once == disconnect(ChanState, "disconnect")
    IN disconnect(once, "disconnect") = once

\* disconnect() has closed the current socket and cancelled its timer while
\* the timer of an earlier socket is still pending.
C13_Witness ==
    /\ wsRef = 0
    /\ \E i \in 1..Len(sockets) :
         sockets[i].state = "CLOSING" /\ sockets[i].closedBy = "disconnect"
    /\ timers # {}
    /\ \A t \in timers : t.id # reconnectTimeoutRef

\* C14 (under Spec): the retried flag.  For every request, whatever the other
\* requests do: _retry, once set, stays set; the request has issued at most
\* one refresh exchange (exactly one when _retry is set) and has gone to the
\* network at most twice; and a 401 for a request whose _retry is set issues
\* no refresh exchange and ends the request.
C14_RetriedOnce ==
    /\ [](\A r \in Reqs :
            /\ req[r].refreshes <= 1
            /\ req[r].sends <= 2
            /\ req[r].retry <=> req[r].refreshes = 1)
    /\ [][\A r \in Reqs :
            /\ req[r].retry => req'[r].retry
            /\ (req[r].retry /\ req'[r].n401 = req[r].n401 + 1) =>
                   /\ req'[r].refreshes = req[r].refreshes
                   /\ req'[r].sends = req[r].sends
                   /\ req'[r].pc = "done"]_vars

\* A retried request was answered 401 again and ended after its one refresh
\* exchange, while another request has been through a refresh of its own.
C14_Witness ==
    \E r, q \in Reqs :
        /\ r # q
        /\ req[r].retry /\ req[r].n401 = 2 /\ req[r].pc = "done"
        /\ req[r].refreshes = 1 /\ req[r].sends = 2
        /\ req[q].retry

\* C15 (under Spec): no torn credential pair.  The store holds an access
\* value exactly when it holds a refresh value.
C15_NoTornPair ==
    (access = None) <=> (refresh = None)

\* C16 (under Spec): cleared means cleared.  A refresh exchange that was
\* issued with a refresh value and is still in flight when the store is
\* empty is abandoned: its completion leaves the access value absent and
\* does not resend the request.
C16_ClearedMeansCleared ==
    [][\A r \in Reqs :
         (/\ req[r].pc = "refreshing"
          /\ req[r].rarg # None
          /\ access = None
          /\ refresh = None
          /\ req'[r].pc # "refreshing") =>
              /\ access' = None
              /\ req'[r].pc = "done"]_vars

\* C17 (under ChannelSpec): the cleared store stops the channel.  While the
\* store holds no access value, no socket is constructed.
C17_ClearedStopsChannel ==
    [][(access = None /\ access' = None) => Len(sockets') = Len(sockets)]_vars

\* C18 (under ChannelSpec): timer cancellation.  Once the component is torn
\* down, no reconnection timer is pending.
C18_TimerCancellation ==
    mounted = "unmounted" => timers = {}

\* C19 (under FailSpec): one reconnection per close.  Every socket
\* constructed after the first one answers the close of a socket: the
\* sockets constructed are at most one more than the sockets closed.
C19_OneAttemptPerClose ==
    Len(sockets) <=
        1 + Cardinality({i \in 1..Len(sockets) : sockets[i].state = "CLOSED"})

\* C20 (under Spec): a failure other than 401.  The step in which a request
\* fails with another error settles the caller's promise with that error,
\* issues no refresh exchange, does not resend, and leaves the stored pair
\* and the location as they were; the request does nothing afterwards.
C20_OtherFailureFrame ==
    [][\A r \in Reqs :
         /\ (req[r].result # "errorOther" /\ req'[r].result = "errorOther") =>
                /\ req[r].pc = "sent"
                /\ req'[r].pc = "done"
                /\ req'[r].refreshes = req[r].refreshes
                /\ req'[r].sends = req[r].sends
                /\ access' = access
                /\ refresh' = refresh
                /\ location' = location
         /\ req[r].result = "errorOther" => req'[r] = req[r]]_vars

\* A request failed with another error on its first send, with a pair in
\* the store.
C20_Witness ==
    \E r \in Reqs :
        /\ req[r].result = "errorOther"
        /\ req[r].sends = 1
        /\ req[r].refreshes = 0
        /\ access # None
        /\ refresh # None

\* C21 (under Spec): a refresh replaces the pair.  When the refresh exchange
\* returns an access value together with a rotated refresh value, the store
\* holds exactly that pair right after.
C21_AtomicPairReplace ==
    [][\A r \in Reqs :
         (/\ req[r].pc = "refreshing"
          /\ req'[r].pc = "sent"
          /\ req'[r].rotated # None) =>
              /\ access' = req'[r].granted
              /\ refresh' = req'[r].rotated]_vars

\* C22 (under LiveSpec): execute() completes.  Provided every exchange gets
\* an answer, every request that was issued eventually settles, with a
\* response or an error, whatever refresh exchanges it or the other
\* requests go through.
C22_ExecuteCompletes ==
    \A r \in Reqs :
        (req[r].pc \in {"sent", "refreshing"}) ~> (req[r].pc = "done")

\* Two requests have settled, each after a refresh exchange of its own, one
\* that failed and one that succeeded.
C22_Witness ==
    \E r, q \in Reqs :
        /\ req[r].pc = "done" /\ SessionExpired(req[r])
        /\ req[q].pc = "done" /\ req[q].refreshes = 1
        /\ req[q].result = "response"

\* C23 (under Spec): the refresh exchange is not retried.  While a request
\* waits for its refresh exchange, that exchange is the only one it has
\* posted; the answer to it, success or failure, posts no other, and a
\* request rejected from the refresh failure does nothing afterwards.
C23_RefreshNotRetried ==
    [][\A r \in Reqs :
         /\ req[r].pc = "refreshing" =>
                /\ req[r].refreshes = 1
                /\ req'[r].refreshes = 1
         /\ SessionExpired(req[r]) => req'[r] = req[r]]_vars

\* A request was rejected from the failure of its one refresh exchange.
C23_Witness ==
    \E r \in Reqs :
        /\ SessionExpired(req[r])
        /\ req[r].pc = "done"
        /\ req[r].refreshes = 1
        /\ req[r].n401 = 1

\* C24 (under ReauthSpec): a new access value leaves an Open channel alone.
\* The step that changes the stored access value changes nothing of the
\* channel; and an Open current socket whose token is no longer the stored
\* one, with the committed isAuthenticated and reconnectCount still current
\* and no timer pending, stays Open until its own close event.
C24_AccessChangeFrame ==
    [][/\ access' # access =>
            UNCHANGED <<isAuthenticated, mounted, deps, isConnected,
                        reconnectCount, wsRef, reconnectTimeoutRef, sockets,
                        timers>>
       /\ \A i \in 1..Len(sockets) :
            (/\ wsRef = i
             /\ sockets[i].state = "OPEN"
             /\ sockets[i].token # access
             /\ deps # <<>>
             /\ deps[1] = isAuthenticated
             /\ deps[2] = reconnectCount
             /\ timers = {}) =>
                 /\ sockets'[i].state \in {"OPEN", "CLOSED"}
                 /\ Len(sockets') = Len(sockets)]_vars

\* The store's access value has changed under an Open current socket.
C24_Witness ==
    /\ wsRef # 0
    /\ isConnected
    /\ \E i \in 1..Len(sockets) :
         /\ wsRef = i
         /\ sockets[i].state = "OPEN"
         /\ sockets[i].token # access
         /\ access # None

\* C25 (under ReauthSpec): every attempt reads the store.  Each socket,
\* constructed by the effect or by a reconnection timer, carries in its
\* target the access value the store holds at the time it is constructed.
C25_AttemptEmbedsCurrent ==
    [][Len(sockets') = Len(sockets) + 1 =>
           /\ access' = access
           /\ sockets'[Len(sockets')].token = access]_vars

\* A socket constructed after the stored access value was refreshed carries
\* the refreshed value, not that of the first attempt.
C25_Witness ==
    /\ Len(sockets) >= 2
    /\ access # refresh
    /\ \E i \in 2..Len(sockets) :
         /\ sockets[i].state \in {"CONNECTING", "OPEN"}
         /\ sockets[i].token = access

\* C26 (under MsgSpec): message order.  onMessage is invoked during the
\* message event itself, once, with the parsed payload, after every message
\* handed over before; a payload that does not parse adds nothing, and
\* nothing else ever adds to, removes from or reorders what the handler has
\* seen.
C26_MessageOrder ==
    [][IF Len(received') = Len(received) + 1
         THEN LET message == JSONParse(received'[Len(received')].raw)
              IN IF message.ok
                   THEN inbox' = Append(inbox, message.value)
                   ELSE inbox' = inbox
         ELSE inbox' = inbox]_vars

\* One stream delivered a, a text that does not parse, then b: the handler
\* has seen a, then b.
C26_Witness ==
    /\ Len(received) = 3
    /\ received[1].sock = received[3].sock
    /\ received[2].sock = received[3].sock
    /\ JSONParse(received[1].raw).ok
    /\ ~JSONParse(received[2].raw).ok
    /\ JSONParse(received[3].raw).ok
    /\ received[1].raw # received[3].raw
    /\ inbox = <<JSONParse(received[1].raw).value,
                 JSONParse(received[3].raw).value>>

\* C27 (under ChannelSpec): isConnected follows the current stream.  While
\* the component is mounted and its current socket is OPEN, isConnected is
\* true.
C27_ConnectedIffOpen ==
    (/\ mounted = "mounted"
     /\ CanSend(ChanState)) => isConnected

\* C28 (under OpenSpec): the bookkeeping on open keeps the stream.  With no
\* reconnection timer pending, an OPEN current socket stays the current
\* socket, open, until its own close event.
C28_OpenKeepsStream ==
    [][\A i \in 1..Len(sockets) :
         (/\ wsRef = i
          /\ sockets[i].state = "OPEN"
          /\ timers = {}) =>
              /\ wsRef' = i
              /\ sockets'[i].state \in {"OPEN", "CLOSED"}]_vars

\* C29 (under FailSpec): one pending timer.  At most one reconnection timer
\* is pending, and it is the one reconnectTimeoutRef remembers.
C29_OnePendingTimer ==
    /\ Cardinality(timers) <= 1
    /\ \A t \in timers : t.id = reconnectTimeoutRef

\* C30 (under ChannelSpec): one live stream.  At most one socket is
\* CONNECTING or OPEN, and it is the current one.
C30_OneLiveStream ==
    \A i \in 1..Len(sockets) :
        sockets[i].state \in {"CONNECTING", "OPEN"} => wsRef = i

\* connect() of a reconnection timer has closed the socket it found current
\* and the new socket is the only live one.
C30_Witness ==
    /\ wsRef # 0
    /\ sockets[wsRef].state \in {"CONNECTING", "OPEN"}
    /\ \E i \in 1..Len(sockets) :
         sockets[i].state = "CLOSING" /\ sockets[i].closedBy = "connect"

====
